---- MODULE Spec2Model ----
(***************************************************************************)
(* Model of app.js (src/unnamed/part_000): the Genshin leveling-cost       *)
(* calculator.  The state is the module-level data of the script           *)
(* (CHARACTERS, TALENT_COSTS, appState.list), the startup load in flight,  *)
(* and the part of the DOM the handlers write (cards, totals panel).       *)
(*                                                                         *)
(* JavaScript values are records tagged by type (JStr, JNum, JUndef,       *)
(* JNull, JObj).  A string is a sequence of symbols: one character per     *)
(* element wherever the code trims, lower-cases or compares it, one        *)
(* multi-character token per element for the fixed fragments it only       *)
(* concatenates.  The Korean labels of the source are romanised, since     *)
(* the module is ASCII.                                                    *)
(***************************************************************************)
EXTENDS Integers, Sequences, FiniteSets, TLC

VARIABLES
    phase,          \* init(): "boot" | "loading" | "ready" | "failed"
    fetchChars,     \* fetchJSON(CHARACTERS_URL): "idle" | "pending" | "ok" | "fail"
    fetchBooks,     \* fetchJSON(BOOK_COST_URL):  "idle" | "pending" | "ok" | "fail"
    rawChars,       \* the roster payload, once fetched (JUndef before)
    bookCost,       \* the cost-table payload, once fetched (JUndef before)
    CHARACTERS,     \* normalized characters
    TALENT_COSTS,   \* normalized talent steps
    list,           \* appState.list
    dom,            \* cards, empty marker, totals panel
    totals,         \* the locals sum and seriesTotals of the last refreshTotals()
    loadAlerts,     \* number of load-failure alerts shown
    alerted,        \* the last alert() of the add handler ("none": none yet)
    nChanges,       \* selector changes made so far (bounded)
    call,           \* the pure-function specifications: the call being made
    ret             \* ... and what it returned (NoRet before it returns)

vars == <<phase, fetchChars, fetchBooks, rawChars, bookCost, CHARACTERS,
          TALENT_COSTS, list, dom, totals, loadAlerts, alerted, nChanges, call, ret>>

appVars == <<phase, fetchChars, fetchBooks, rawChars, bookCost, CHARACTERS,
             list, dom, totals, loadAlerts, alerted, nChanges>>

-----------------------------------------------------------------------------
(* JavaScript values *)

JStr(s) == [t |-> "str", s |-> s]
JNum(n) == [t |-> "num", n |-> n]
JUndef == [t |-> "undef"]
JNull == [t |-> "null"]
\* an object or function that is not one of the program's own tables, known
\* only by the string it converts to
JObj(str) == [t |-> "obj", str |-> str]
\* the thing a throwing evaluation yields instead of a value
Thrown == [t |-> "throw"]

\* NaN, the one number that is not an integer here; every comparison with it
\* is false and it is falsy
NaN == -999999

Truthy(v) ==
    CASE v.t = "str" -> v.s # <<>>
      [] v.t = "num" -> v.n # 0 /\ v.n # NaN
      [] v.t \in {"obj", "arr", "rec"} -> TRUE
      [] OTHER -> FALSE

\* a || b
OrElse(a, b) == IF Truthy(a) THEN a ELSE b

Digit == <<"0","1","2","3","4","5","6","7","8","9">>

RECURSIVE NatToStr(_)
NatToStr(n) == IF n < 10 THEN <<Digit[n + 1]>>
               ELSE NatToStr(n \div 10) \o <<Digit[(n % 10) + 1]>>

NumToStr(n) == IF n = NaN THEN <<"NaN">>
               ELSE IF n < 0 THEN <<"-">> \o NatToStr(0 - n) ELSE NatToStr(n)

\* String(v), as .toString() and template literals do it
ToStr(v) ==
    CASE v.t = "str" -> v.s
      [] v.t = "num" -> NumToStr(v.n)
      [] v.t = "undef" -> <<"undefined">>
      [] v.t = "null" -> <<"null">>
      [] OTHER -> v.str

WhiteSpace == {" ", "\t", "\n"}

RECURSIVE TrimStart(_)
TrimStart(s) == IF s # <<>> /\ Head(s) \in WhiteSpace THEN TrimStart(Tail(s)) ELSE s

RECURSIVE TrimEnd(_)
TrimEnd(s) == IF s # <<>> /\ s[Len(s)] \in WhiteSpace
              THEN TrimEnd(SubSeq(s, 1, Len(s) - 1)) ELSE s

Trim(s) == TrimEnd(TrimStart(s))

\* the letters toLowerCase changes (of the ASCII range)
LowerOf ==
    [ c \in {"A","B","C","D","E","F","G","H","I","J","K","L","M",
             "N","O","P","Q","R","S","T","U","V","W","X","Y","Z"} |->
      CASE c = "A" -> "a" [] c = "B" -> "b" [] c = "C" -> "c" [] c = "D" -> "d"
        [] c = "E" -> "e" [] c = "F" -> "f" [] c = "G" -> "g" [] c = "H" -> "h"
        [] c = "I" -> "i" [] c = "J" -> "j" [] c = "K" -> "k" [] c = "L" -> "l"
        [] c = "M" -> "m" [] c = "N" -> "n" [] c = "O" -> "o" [] c = "P" -> "p"
        [] c = "Q" -> "q" [] c = "R" -> "r" [] c = "S" -> "s" [] c = "T" -> "t"
        [] c = "U" -> "u" [] c = "V" -> "v" [] c = "W" -> "w" [] c = "X" -> "x"
        [] c = "Y" -> "y" [] c = "Z" -> "z" ]

ToLowerChar(c) == IF c \in DOMAIN LowerOf THEN LowerOf[c] ELSE c

ToLowerCase(s) == [i \in 1..Len(s) |-> ToLowerChar(s[i])]

DigitValue(c) == (CHOOSE i \in 1..10 : Digit[i] = c) - 1

IsDigits(s) == s # <<>> /\ \A i \in 1..Len(s) : \E d \in 1..10 : Digit[d] = s[i]

RECURSIVE DigitsToNat(_)
DigitsToNat(s) == IF s = <<>> THEN 0
                  ELSE 10 * DigitsToNat(SubSeq(s, 1, Len(s) - 1)) + DigitValue(s[Len(s)])

\* Number(v), the unary plus: white space is trimmed, the empty string and
\* null are 0, undefined and a string that is no numeral are NaN
ToNumber(v) ==
    CASE v.t = "num" -> v.n
      [] v.t = "str" -> IF Trim(v.s) = <<>> THEN 0
                        ELSE IF IsDigits(Trim(v.s)) THEN DigitsToNat(Trim(v.s))
                        ELSE NaN
      [] v.t = "null" -> 0
      [] OTHER -> NaN

\* the names every object inherits from Object.prototype (those a lower-cased
\* key can spell, and some it cannot)
ObjectPrototype ==
       (<<"c","o","n","s","t","r","u","c","t","o","r">> :> JObj(<<"function Object() { [native code] }">>))
    @@ (<<"_","_","p","r","o","t","o","_","_">> :> JObj(<<"[object Object]">>))
    @@ (<<"t","o","S","t","r","i","n","g">> :> JObj(<<"function toString() { [native code] }">>))
    @@ (<<"v","a","l","u","e","O","f">> :> JObj(<<"function valueOf() { [native code] }">>))

\* obj[key] on one of the literal tables: own property, else inherited, else
\* undefined
Get(obj, key) ==
    IF key \in DOMAIN obj THEN obj[key]
    ELSE IF key \in DOMAIN ObjectPrototype THEN ObjectPrototype[key]
    ELSE JUndef

-----------------------------------------------------------------------------
(* 2) Day/Region normalization and series mapping *)

DAY_ALIAS ==
       (<<"m","o","n">> :> JStr(<<"m","o","n">>))
    @@ (<<"m","o","n","d","a","y">> :> JStr(<<"m","o","n">>))
    @@ (<<"m">> :> JStr(<<"m","o","n">>))
    @@ (<<"t","u","e">> :> JStr(<<"t","u","e">>))
    @@ (<<"t","u","e","s","d","a","y">> :> JStr(<<"t","u","e">>))
    @@ (<<"t">> :> JStr(<<"t","u","e">>))
    @@ (<<"w","e","d">> :> JStr(<<"w","e","d">>))
    @@ (<<"w","e","d","n","e","s","d","a","y">> :> JStr(<<"w","e","d">>))
    @@ (<<"w","e","n">> :> JStr(<<"w","e","d">>))
    @@ (<<"w">> :> JStr(<<"w","e","d">>))
    @@ (<<"t","h","u">> :> JStr(<<"t","h","u">>))
    @@ (<<"t","h","u","r","s","d","a","y">> :> JStr(<<"t","h","u">>))
    @@ (<<"t","h">> :> JStr(<<"t","h","u">>))
    @@ (<<"f","r","i">> :> JStr(<<"f","r","i">>))
    @@ (<<"f","r","i","d","a","y">> :> JStr(<<"f","r","i">>))
    @@ (<<"f">> :> JStr(<<"f","r","i">>))
    @@ (<<"s","a","t">> :> JStr(<<"s","a","t">>))
    @@ (<<"s","a","t","u","r","d","a","y">> :> JStr(<<"s","a","t">>))
    @@ (<<"s">> :> JStr(<<"s","a","t">>))
    @@ (<<"s","u","n">> :> JStr(<<"s","u","n">>))
    @@ (<<"s","u","n","d","a","y">> :> JStr(<<"s","u","n">>))

REGION_ALIAS ==
       (<<"m","o","n","d">> :> JStr(<<"m","o","n","d">>))
    @@ (<<"m","o","n","d","s","t","a","d","t">> :> JStr(<<"m","o","n","d">>))
    @@ (<<"l","i","y","u","e">> :> JStr(<<"l","i","y","u","e">>))
    @@ (<<"i","n","a","z","m","a">> :> JStr(<<"i","n","a","z","u","m","a">>))
    @@ (<<"i","n","a","z","u","m","a">> :> JStr(<<"i","n","a","z","u","m","a">>))
    @@ (<<"s","u","m","e","r","u">> :> JStr(<<"s","u","m","e","r","u">>))
    @@ (<<"f","o","n","t","a","i","n","e">> :> JStr(<<"f","o","n","t","a","i","n","e">>))
    @@ (<<"n","a","t","l","a","n">> :> JStr(<<"n","a","t","l","a","n">>))

\* Region x Day -> series key and label
TALENT_BOOKS ==
       (<<"m","o","n","d">> :>
           ( (<<"m","o","n">> :> [key |-> <<"freedom">>, name_kr |-> <<"jayu">>])
          @@ (<<"t","u","e">> :> [key |-> <<"resistance">>, name_kr |-> <<"tujaeng">>])
          @@ (<<"w","e","d">> :> [key |-> <<"ballad">>, name_kr |-> <<"si">>]) ))
    @@ (<<"l","i","y","u","e">> :>
           ( (<<"m","o","n">> :> [key |-> <<"prosperity">>, name_kr |-> <<"beonyeong">>])
          @@ (<<"t","u","e">> :> [key |-> <<"diligence">>, name_kr |-> <<"geunmyeon">>])
          @@ (<<"w","e","d">> :> [key |-> <<"gold">>, name_kr |-> <<"hwanggeum">>]) ))
    @@ (<<"i","n","a","z","u","m","a">> :>
           ( (<<"m","o","n">> :> [key |-> <<"transience">>, name_kr |-> <<"buse">>])
          @@ (<<"t","u","e">> :> [key |-> <<"elegance">>, name_kr |-> <<"punga">>])
          @@ (<<"w","e","d">> :> [key |-> <<"light">>, name_kr |-> <<"cheongwang">>]) ))
    @@ (<<"s","u","m","e","r","u">> :>
           ( (<<"m","o","n">> :> [key |-> <<"admonition">>, name_kr |-> <<"hungye">>])
          @@ (<<"t","u","e">> :> [key |-> <<"ingenuity">>, name_kr |-> <<"changui">>])
          @@ (<<"w","e","d">> :> [key |-> <<"praxis">>, name_kr |-> <<"silcheon">>]) ))
    @@ (<<"f","o","n","t","a","i","n","e">> :>
           ( (<<"m","o","n">> :> [key |-> <<"equity">>, name_kr |-> <<"gongjeong">>])
          @@ (<<"t","u","e">> :> [key |-> <<"judgment">>, name_kr |-> <<"simpan">>])
          @@ (<<"w","e","d">> :> [key |-> <<"order">>, name_kr |-> <<"jilseo">>]) ))
    @@ (<<"n","a","t","l","a","n">> :>
           ( (<<"m","o","n">> :> [key |-> <<"conflict">>, name_kr |-> <<"yesi1">>])
          @@ (<<"t","u","e">> :> [key |-> <<"war">>, name_kr |-> <<"yesi2">>])
          @@ (<<"w","e","d">> :> [key |-> <<"rule">>, name_kr |-> <<"yesi3">>]) ))

\* Icon path rules
IMAGE_SERIES(region, seriesKey) ==
    <<"images/books/">> \o region \o <<"_">> \o seriesKey \o <<".png">>
IMAGE_SERIES_TIER(region, seriesKey, tierKey) ==
    <<"images/books/">> \o region \o <<"_">> \o seriesKey \o <<"_">> \o tierKey \o <<".png">>

\* talent_book: null
NoBook == [null |-> TRUE]

\* the object literal of loadData, for the table entry e
MakeBook(region, e) ==
    [ key |-> e.key,
      name_kr |-> e.name_kr,
      image |-> IMAGE_SERIES(region, e.key),
      tiers |-> [ low  |-> [ key |-> <<"teachings">>, label_kr |-> <<"gareuchim">>,
                             image |-> IMAGE_SERIES_TIER(region, e.key, <<"teachings">>) ],
                  mid  |-> [ key |-> <<"guide">>, label_kr |-> <<"indo">>,
                             image |-> IMAGE_SERIES_TIER(region, e.key, <<"guide">>) ],
                  high |-> [ key |-> <<"philosophies">>, label_kr |-> <<"cheolhak">>,
                             image |-> IMAGE_SERIES_TIER(region, e.key, <<"philosophies">>) ] ] ]

\* a mutant of SeriesOf: a day the region's row lacks falls back to Monday's
\* series
SeriesOfAnyDay(region, day) ==
    IF ~Truthy(region) \/ ~Truthy(day) THEN NoBook
    ELSE IF ToStr(region) \in DOMAIN TALENT_BOOKS
    THEN IF ToStr(day) \in DOMAIN TALENT_BOOKS[ToStr(region)]
         THEN MakeBook(ToStr(region), TALENT_BOOKS[ToStr(region)][ToStr(day)])
         ELSE MakeBook(ToStr(region), TALENT_BOOKS[ToStr(region)][<<"m","o","n">>])
    ELSE NoBook

\* the condition and the body of `if (region && day && TALENT_BOOKS[region]
\* && TALENT_BOOKS[region][day])`.  A property key is the string of the value
\* used as key.  An inherited property of a region's row is truthy and
\* destructures to undefined key and name; an inherited property of
\* TALENT_BOOKS itself has none of the day keys.
SeriesOf(region, day) ==
    IF ~Truthy(region) \/ ~Truthy(day) THEN NoBook
    ELSE IF ToStr(region) \in DOMAIN TALENT_BOOKS
    THEN IF ToStr(day) \in DOMAIN TALENT_BOOKS[ToStr(region)]
         THEN MakeBook(ToStr(region), TALENT_BOOKS[ToStr(region)][ToStr(day)])
         ELSE IF ToStr(day) \in DOMAIN ObjectPrototype
         THEN MakeBook(ToStr(region), [key |-> <<"undefined">>, name_kr |-> <<"undefined">>])
         ELSE NoBook
    ELSE NoBook

\* (c.region||'').toString().trim().toLowerCase()
RawKey(v) == ToLowerCase(Trim(ToStr(OrElse(v, JStr(<<>>)))))

\* REGION_ALIAS[regionRaw] || regionRaw || ''
Normalize(alias, raw) == OrElse(OrElse(Get(alias, raw), JStr(raw)), JStr(<<>>))

\* a raw roster record: a JSON object with these members (JUndef: absent), or
\* JNull for a null element of the array
RawChar(id, name_kr, name_en, region, day) ==
    [t |-> "rec", id |-> id, name_kr |-> name_kr, name_en |-> name_en,
     element |-> JUndef, weapon |-> JUndef, image |-> JUndef,
     region |-> region, day |-> day]

\* the record c with these element, weapon and image members
WithMembers(c, element, weapon, image) ==
    [c EXCEPT !.element = element, !.weapon = weapon, !.image = image]

\* whether the callback of rawChars.map throws on c: a property read of null,
\* or .trim() on a truthy name_kr that is no string
NormalizeThrows(c) ==
    \/ c.t = "null"
    \/ c.t = "rec" /\ Truthy(c.name_kr) /\ c.name_kr.t # "str"

\* the object the callback of rawChars.map returns
Character(c, region, day) ==
    [ id |-> c.id,
      name |-> IF Truthy(c.name_kr) /\ Trim(c.name_kr.s) # <<>>
               THEN c.name_kr ELSE c.name_en,
      name_en |-> OrElse(c.name_en, JStr(<<>>)),
      element |-> OrElse(c.element, JStr(<<>>)),
      weapon |-> OrElse(c.weapon, JStr(<<>>)),
      image |-> OrElse(c.image, JStr(<<"i","m","a","g","e","s","/","p","l","a","c","e","h","o","l","d","e","r",".","p","n","g">>)),
      region |-> region,
      day |-> day,
      talent_book |-> SeriesOf(region, day) ]

\* the callback of rawChars.map
NormalizeChar(c) ==
    Character(c, Normalize(REGION_ALIAS, RawKey(c.region)), Normalize(DAY_ALIAS, RawKey(c.day)))

-----------------------------------------------------------------------------
(* 3) Level cost (segment totals) *)

LEVEL_COSTS == <<
    [ from_level |-> 1,  to_level |-> 20, total_xp |-> 120175,  total_mora |-> 28000,  hero_wit |-> 7 ],
    [ from_level |-> 20, to_level |-> 40, total_xp |-> 578325,  total_mora |-> 112000, hero_wit |-> 28 ],
    [ from_level |-> 40, to_level |-> 50, total_xp |-> 573100,  total_mora |-> 116000, hero_wit |-> 29 ],
    [ from_level |-> 50, to_level |-> 60, total_xp |-> 859525,  total_mora |-> 172000, hero_wit |-> 43 ],
    [ from_level |-> 60, to_level |-> 70, total_xp |-> 1196525, total_mora |-> 240000, hero_wit |-> 60 ],
    [ from_level |-> 70, to_level |-> 80, total_xp |-> 1611875, total_mora |-> 320000, hero_wit |-> 80 ],
    [ from_level |-> 80, to_level |-> 90, total_xp |-> 3423125, total_mora |-> 688000, hero_wit |-> 172 ] >>

LEVEL_ANCHORS == <<1, 20, 40, 50, 60, 70, 80, 90>>

-----------------------------------------------------------------------------
(* 7) Calculators *)

Min(a, b) == IF a <= b THEN a ELSE b

\* Array.prototype.includes
Includes(arr, x) == \E i \in 1..Len(arr) : arr[i] = x

\* LEVEL_ANCHORS.reduce((a,b)=> (b<=curr ? b : a), 1), from index i on
RECURSIVE ReduceFloor(_, _, _)
ReduceFloor(a, i, curr) ==
    IF i > Len(LEVEL_ANCHORS) THEN a
    ELSE ReduceFloor(IF LEVEL_ANCHORS[i] <= curr THEN LEVEL_ANCHORS[i] ELSE a, i + 1, curr)

\* LEVEL_ANCHORS.reduce((a,b)=> (b>=target? Math.min(a,b):a), 90), from index i on
RECURSIVE ReduceCeil(_, _, _)
ReduceCeil(a, i, target) ==
    IF i > Len(LEVEL_ANCHORS) THEN a
    ELSE ReduceCeil(IF LEVEL_ANCHORS[i] >= target THEN Min(a, LEVEL_ANCHORS[i]) ELSE a,
                    i + 1, target)

\* a mutant of LevelRowCounts: the segment that ends at the floor is charged
\* too
LevelRowCountsInclusive(row, c, t) == row.to_level >= c /\ row.from_level < t

\* the condition of the loop over LEVEL_COSTS
LevelRowCounts(row, c, t) == row.to_level > c /\ row.from_level < t

\* the body of the loop over LEVEL_COSTS
LevelStep(acc, row, c, t) ==
    IF LevelRowCounts(row, c, t)
    THEN [ xp |-> acc.xp + row.total_xp,
           mora |-> acc.mora + row.total_mora,
           hero |-> acc.hero + row.hero_wit ]
    ELSE acc

\* the loop over LEVEL_COSTS, from index i on, with the accumulators in acc
RECURSIVE LevelLoop(_, _, _, _)
LevelLoop(acc, i, c, t) ==
    IF i > Len(LEVEL_COSTS) THEN acc
    ELSE LevelLoop(LevelStep(acc, LEVEL_COSTS[i], c, t), i + 1, c, t)

calcLevelCost(curr, target) ==
    IF target <= curr THEN [xp |-> 0, mora |-> 0, hero |-> 0]
    ELSE LevelLoop([xp |-> 0, mora |-> 0, hero |-> 0], 1,
                   IF Includes(LEVEL_ANCHORS, curr) THEN curr ELSE ReduceFloor(1, 1, curr),
                   IF Includes(LEVEL_ANCHORS, target) THEN target ELSE ReduceCeil(90, 1, target))

\* x || 0 on a number
OrZero(x) == IF x = NaN THEN 0 ELSE x

\* a >= b and a <= b on numbers: false when either is NaN
Geq(a, b) == a # NaN /\ b # NaN /\ a >= b
Leq(a, b) == a # NaN /\ b # NaN /\ a <= b

ZeroTalent == [mora |-> 0, crown |-> 0, books |-> [low |-> 0, mid |-> 0, high |-> 0]]

\* a mutant of StepCounts: any step overlapping the range is charged
StepOverlaps(step, from, to) ==
    step.to # NaN /\ step.from # NaN /\ step.to > from /\ step.from < to

\* the condition of the loop over TALENT_COSTS
StepCounts(step, from, to) == Geq(step.from, from) /\ Leq(step.to, to)

\* the body of the loop over TALENT_COSTS
TalentStep(acc, step, from, to) ==
    IF StepCounts(step, from, to)
    THEN [ mora |-> acc.mora + OrZero(step.mora),
           crown |-> acc.crown + OrZero(step.crown),
           books |-> [ low |-> acc.books.low + OrZero(step.book_low),
                       mid |-> acc.books.mid + OrZero(step.book_mid),
                       high |-> acc.books.high + OrZero(step.book_high) ] ]
    ELSE acc

\* the loop over the step table, from index i on, with out in acc
RECURSIVE TalentLoop(_, _, _, _, _)
TalentLoop(acc, steps, i, from, to) ==
    IF i > Len(steps) THEN acc
    ELSE TalentLoop(TalentStep(acc, steps[i], from, to), steps, i + 1, from, to)

\* calcTalentCost reads the global TALENT_COSTS: costs is its value at the call
calcTalentCost(costs, from, to) ==
    IF to <= from THEN ZeroTalent
    ELSE TalentLoop(ZeroTalent, costs, 1, from, to)

\* the object calcCharacterCost returns, from its four locals
CharacterTotals(lvl, tNA, tSK, tBR) ==
    [ mora |-> lvl.mora + tNA.mora + tSK.mora + tBR.mora,
      xp |-> lvl.xp,
      heroBooks |-> lvl.hero,
      books |-> [ low |-> OrZero(tNA.books.low) + OrZero(tSK.books.low) + OrZero(tBR.books.low),
                  mid |-> OrZero(tNA.books.mid) + OrZero(tSK.books.mid) + OrZero(tBR.books.mid),
                  high |-> OrZero(tNA.books.high) + OrZero(tSK.books.high) + OrZero(tBR.books.high) ],
      crown |-> OrZero(tNA.crown) + OrZero(tSK.crown) + OrZero(tBR.crown) ]

\* a mutant of calcCharacterCost: the burst track is left out
calcCharacterCostNoBurst(costs, s) ==
    CharacterTotals(calcLevelCost(s.levelCurrent, s.levelTarget),
                    calcTalentCost(costs, s.naCurrent, s.naTarget),
                    calcTalentCost(costs, s.skillCurrent, s.skillTarget),
                    ZeroTalent)

calcCharacterCost(costs, s) ==
    CharacterTotals(calcLevelCost(s.levelCurrent, s.levelTarget),
                    calcTalentCost(costs, s.naCurrent, s.naTarget),
                    calcTalentCost(costs, s.skillCurrent, s.skillTarget),
                    calcTalentCost(costs, s.burstCurrent, s.burstTarget))

-----------------------------------------------------------------------------
(* 0) Utils *)

Pad3(n) == <<Digit[(n \div 100) + 1], Digit[((n \div 10) % 10) + 1], Digit[(n % 10) + 1]>>

\* toLocaleString('ko-KR') of a natural number: groups of three digits
RECURSIVE Grouped(_)
Grouped(n) == IF n < 1000 THEN NatToStr(n)
              ELSE Grouped(n \div 1000) \o <<",">> \o Pad3(n % 1000)

\* fmt = n => (n||0).toLocaleString('ko-KR')
fmt(n) == IF OrZero(n) < 0 THEN <<"-">> \o Grouped(0 - OrZero(n)) ELSE Grouped(OrZero(n))

-----------------------------------------------------------------------------
(* 9) Totals (overall + series-by-tier) *)

ZeroSum == [mora |-> 0, xp |-> 0, hero |-> 0,
            books |-> [low |-> 0, mid |-> 0, high |-> 0], crown |-> 0]

\* a mutant of SeriesKey: the region is left out of the key
SeriesKeyNoRegion(it) ==
    it.talent_book.key \o <<"@@">> \o it.talent_book.name_kr

\* `${it.talent_book.key}@@${it.talent_book.name_kr}@@${it.region||''}`
SeriesKey(it) ==
    it.talent_book.key \o <<"@@">> \o it.talent_book.name_kr \o <<"@@">>
        \o ToStr(OrElse(it.region, JStr(<<>>)))

\* the index of the property sKey of seriesTotals (0: it has none); the
\* object keeps its properties in insertion order
SeriesIndex(series, sKey) ==
    IF \E i \in 1..Len(series) : series[i].sKey = sKey
    THEN CHOOSE i \in 1..Len(series) : series[i].sKey = sKey
    ELSE 0

\* seriesTotals[sKey] = { key, nameKr, region, sums, icons } when it has no
\* property sKey
WithSeries(series, sKey, it) ==
    IF SeriesIndex(series, sKey) # 0 THEN series
    ELSE Append(series,
           [ sKey |-> sKey,
             key |-> it.talent_book.key,
             nameKr |-> it.talent_book.name_kr,
             region |-> ToStr(OrElse(it.region, JStr(<<>>))),
             sums |-> [teachings |-> 0, guide |-> 0, philosophies |-> 0],
             icons |-> [ teachings |-> it.talent_book.tiers.low.image,
                         guide |-> it.talent_book.tiers.mid.image,
                         philosophies |-> it.talent_book.tiers.high.image ] ])

\* the three `seriesTotals[sKey].sums.x += c.books.y || 0`
AddBooks(series, k, c) ==
    [ series EXCEPT ![k].sums =
        [ teachings |-> @.teachings + OrZero(c.books.low),
          guide |-> @.guide + OrZero(c.books.mid),
          philosophies |-> @.philosophies + OrZero(c.books.high) ] ]

BucketInto(series, sKey, c) == AddBooks(series, SeriesIndex(series, sKey), c)

\* the `if (it.talent_book)` block of refreshTotals for the entry it with
\* cost c
Bucket(series, it, c) ==
    IF it.talent_book = NoBook THEN series
    ELSE BucketInto(WithSeries(series, SeriesKey(it), it), SeriesKey(it), c)

\* the body of the loop of refreshTotals for the entry it with cost c
AddCost(acc, it, c) ==
    [ sum |-> [ mora |-> acc.sum.mora + c.mora,
                xp |-> acc.sum.xp + c.xp,
                hero |-> acc.sum.hero + c.heroBooks,
                books |-> [ low |-> acc.sum.books.low + OrZero(c.books.low),
                            mid |-> acc.sum.books.mid + OrZero(c.books.mid),
                            high |-> acc.sum.books.high + OrZero(c.books.high) ],
                crown |-> acc.sum.crown + OrZero(c.crown) ],
      seriesTotals |-> Bucket(acc.seriesTotals, it, c) ]

\* a mutant of Accumulate: an entry whose character id an earlier entry of the
\* list has is skipped
RECURSIVE AccumulateDistinctIds(_, _, _, _)
AccumulateDistinctIds(acc, costs, lst, i) ==
    IF i > Len(lst) THEN acc
    ELSE IF \E j \in 1..(i - 1) : lst[j].id = lst[i].id
    THEN AccumulateDistinctIds(acc, costs, lst, i + 1)
    ELSE AccumulateDistinctIds(AddCost(acc, lst[i], calcCharacterCost(costs, lst[i])),
                               costs, lst, i + 1)

\* the loop `for (const it of appState.list)` of refreshTotals, from index i
\* on, with sum and seriesTotals in acc
RECURSIVE Accumulate(_, _, _, _)
Accumulate(acc, costs, lst, i) ==
    IF i > Len(lst) THEN acc
    ELSE Accumulate(AddCost(acc, lst[i], calcCharacterCost(costs, lst[i])), costs, lst, i + 1)

\* the three rows renderSeriesTotals makes for one series
SeriesRows(st) == <<
    [ label |-> st.nameKr \o <<"-ui gareuchim">>, value |-> fmt(st.sums.teachings),
      icon |-> st.icons.teachings ],
    [ label |-> st.nameKr \o <<"-ui indo">>, value |-> fmt(st.sums.guide),
      icon |-> st.icons.guide ],
    [ label |-> st.nameKr \o <<"-ui cheolhak">>, value |-> fmt(st.sums.philosophies),
      icon |-> st.icons.philosophies ] >>

\* the rows of the new .series-rows container, for the series from index i on
RECURSIVE WrapRows(_, _)
WrapRows(series, i) ==
    IF i > Len(series) THEN <<>>
    ELSE SeriesRows(series[i]) \o WrapRows(series, i + 1)

\* a mutant of renderSeriesTotals: the previous container is not removed
renderSeriesTotalsKeepOld(wraps, seriesTotals) ==
    Append(wraps, WrapRows(seriesTotals, 1))

\* renderSeriesTotals: wraps are the .series-rows containers of the panel in
\* document order; the first is removed, the new one appended
renderSeriesTotals(wraps, seriesTotals) ==
    Append(IF wraps = <<>> THEN wraps ELSE Tail(wraps), WrapRows(seriesTotals, 1))

\* ensureValueRow('sum-crown', ...) and the assignment of its text: rows are
\* the texts of the elements with that id, in document order
CrownRow(rows, text) ==
    IF rows = <<>> THEN <<text>> ELSE [rows EXCEPT ![1] = text]

\* the second half of refreshTotals: the panel d with the sums acc written
\* to it, and acc
ShowTotals(d, acc) ==
    [ totals |-> acc,
      dom |-> [ d EXCEPT !.sumMora = fmt(acc.sum.mora),
                         !.sumExp = fmt(acc.sum.xp),
                         !.sumBooks = fmt(acc.sum.hero),
                         !.crownRows = CrownRow(@, fmt(acc.sum.crown)),
                         !.seriesWraps = renderSeriesTotals(@, acc.seriesTotals) ] ]

\* refreshTotals(): the new document and the locals sum and seriesTotals
refreshTotals(costs, lst, d) ==
    ShowTotals(d, Accumulate([sum |-> ZeroSum, seriesTotals |-> <<>>], costs, lst, 1))

-----------------------------------------------------------------------------
(* 8) Rendering *)

\* createCardNode: of the card, the entry it is bound to, the values of its
\* eight selects and the preview text
createCardNode(costs, item) ==
    [ uid |-> item.uid,
      selects |-> << item.levelCurrent, item.levelTarget, item.naCurrent, item.naTarget,
                     item.skillCurrent, item.skillTarget, item.burstCurrent, item.burstTarget >>,
      preview |-> fmt(calcCharacterCost(costs, item).mora) ]

\* render(): the cards of the list, the empty state, and refreshTotals
render(costs, lst, d) ==
    refreshTotals(costs, lst,
        [ d EXCEPT !.cards = [i \in 1..Len(lst) |-> createCardNode(costs, lst[i])],
                   !.empty = IF Len(lst) = 0 THEN "block" ELSE "none" ])

\* initTotalsPanel: the experience row is removed from the panel, the mora and
\* hero-book rows get their icons
initTotalsPanel(d) ==
    [ d EXCEPT !.expRow = FALSE, !.icons = @ \cup {"sum-mora", "sum-talent-books"} ]

-----------------------------------------------------------------------------
(* 5) Data load & normalize *)

\* a JSON array
JArr(a) == [t |-> "arr", a |-> a]

\* a raw row of book_cost.json (JUndef: the member is absent), or JNull
RawStep(from, to, book_low, book_mid, book_high, mora, crown) ==
    [t |-> "rec", from |-> from, to |-> to, book_low |-> book_low,
     book_mid |-> book_mid, book_high |-> book_high, mora |-> mora, crown |-> crown]

\* the callback of (bookCost||[]).map
NormalizeStep(r) ==
    [ from |-> ToNumber(r.from),
      to |-> ToNumber(r.to),
      book_low |-> ToNumber(OrElse(r.book_low, JNum(0))),
      book_mid |-> ToNumber(OrElse(r.book_mid, JNum(0))),
      book_high |-> ToNumber(OrElse(r.book_high, JNum(0))),
      mora |-> ToNumber(OrElse(r.mora, JNum(0))),
      crown |-> ToNumber(OrElse(r.crown, JNum(0))) ]

\* the body of loadData after the await, on the two payloads: the tables as
\* it leaves them and whether it threw.  rawChars.map throws on a payload
\* that is no array and when its callback does, before CHARACTERS is
\* assigned; the map of the cost rows throws after.
loadDataBody(rc, bc) ==
    IF rc.t # "arr" \/ \E i \in 1..Len(rc.a) : NormalizeThrows(rc.a[i])
    THEN [threw |-> TRUE, CHARACTERS |-> <<>>, TALENT_COSTS |-> <<>>]
    ELSE [ threw |-> Truthy(bc) /\ (bc.t # "arr" \/ \E i \in 1..Len(bc.a) : bc.a[i].t = "null"),
           CHARACTERS |-> [i \in 1..Len(rc.a) |-> NormalizeChar(rc.a[i])],
           TALENT_COSTS |->
               IF Truthy(bc) /\ bc.t = "arr" /\ \A i \in 1..Len(bc.a) : bc.a[i].t # "null"
               THEN [i \in 1..Len(bc.a) |-> NormalizeStep(bc.a[i])]
               ELSE <<>> ]

\* a mutant of AfterLoad: the catch block does not reset the tables
AfterLoadNoReset(r) == r

\* the tables after `try { await loadData(); } catch (e) { ... }`, r being
\* what loadData left
AfterLoad(r) ==
    IF r.threw THEN [threw |-> TRUE, CHARACTERS |-> <<>>, TALENT_COSTS |-> <<>>] ELSE r

\* loadData rejected before its body ran: a fetch failed
Rejected == [threw |-> TRUE, CHARACTERS |-> CHARACTERS, TALENT_COSTS |-> TALENT_COSTS]

\* initDatalist
initDatalist(chars, d) == [d EXCEPT !.datalist = [i \in 1..Len(chars) |-> ToStr(chars[i].name)]]

-----------------------------------------------------------------------------
(* Inputs *)

\* the selector changes one run makes
MaxChanges == 1
\* the longest step table and working list handed to the calculators
MaxSteps == 2
MaxList == 2
\* how many times in a row refreshTotals is called on one list
MaxCalls == 2
\* how far below 1 and above 90 the levels handed to calcLevelCost go
LevelPad == 3

Amber == RawChar(JNum(1), JStr(<<"A","m">>), JStr(<<"A","m","b","e","r">>),
                 JStr(<<"M","o","n","d","s","t","a","d","t">>), JStr(<<"M","o","n","d","a","y">>))
Keqing == RawChar(JStr(<<"1">>), JUndef, JStr(<<"K","e">>),
                  JStr(<<" ","L","I","Y","U","E"," ">>), JStr(<<"t","u","e">>))
Tartaglia == RawChar(JNum(1), JStr(<<" ">>), JStr(<<"T","a">>),
                     JStr(<<"s","n","e","z","h","n","a","y","a">>), JStr(<<"m","o","n">>))
Numeric == RawChar(JNum(5), JUndef, JNum(5), JNum(0), JNull)
BadName == RawChar(JNum(4), JNum(7), JStr(<<"X">>), JUndef, JUndef)

\* what characters.json may hold
Rosters == { JArr(<<Amber, Keqing, Tartaglia, Numeric>>), JArr(<<Amber, BadName>>), JNull }

Step12 == RawStep(JNum(1), JNum(2), JNum(3), JUndef, JUndef, JNum(12500), JUndef)
Step23 == RawStep(JStr(<<"2">>), JStr(<<"3">>), JUndef, JStr(<<"2">>), JNum(0),
                  JStr(<<"1","7","5","0","0">>), JNull)
Step56 == RawStep(JNum(5), JNum(6), JStr(<<"a","b","c">>), JNum(4), JUndef, JUndef, JUndef)
Step910 == RawStep(JNum(9), JNum(10), JUndef, JUndef, JNum(16), JNum(700000), JNum(1))
Step13 == RawStep(JNum(1), JNum(3), JNum(5), JNum(1), JUndef, JNum(30000), JUndef)
StepNoFrom == RawStep(JUndef, JNum(4), JNum(9), JUndef, JUndef, JNum(1000), JUndef)

\* what book_cost.json may hold
BookCosts == { JArr(<<Step12, Step23, Step56, Step910>>), JNull, JArr(<<Step12, JNull>>) }

\* what the user types into the search box
Keywords == { <<"a","m">>, <<" ","K","E">>, <<"T","a">>, <<>>, <<"z">> }

\* what Date.now() returns: wall-clock milliseconds, which may repeat
Times == {0, 1}

\* the options the user picks in a level select and in a talent select
SelLevels == {40, 90}
SelRanks == {1, 10}

\* the levels handed to calcLevelCost
Levels == (1 - LevelPad)..(90 + LevelPad)

\* the ranks of the talent selects
Ranks == 1..10

\* the step table of the first cost file, and others
MainCosts == [i \in 1..4 |-> NormalizeStep(<<Step12, Step23, Step56, Step910>>[i])]
OddCosts == [i \in 1..2 |-> NormalizeStep(<<Step13, StepNoFrom>>[i])]
CostTables == { MainCosts, OddCosts, <<>> }

\* the rows step tables are made of
StepPool == { NormalizeStep(r) : r \in {Step12, Step23, Step56, Step910, Step13, StepNoFrom} }

RECURSIVE SeqsUpTo(_, _)
SeqsUpTo(S, n) ==
    IF n = 0 THEN { <<>> }
    ELSE SeqsUpTo(S, n - 1) \cup { Append(s, x) : s \in SeqsUpTo(S, n - 1), x \in S }

\* the selects of the entries handed to calcCharacterCost
CharLevels == {1, 25, 90}
CharRanks == {1, 5, 10}

\* the raw region and day members the resolver is tried on
RawRegions ==
    { JStr(<<"m","o","n","d">>), JStr(<<"M","o","n","d","s","t","a","d","t">>),
      JStr(<<" ","L","I","Y","U","E"," ">>), JStr(<<"i","n","a","z","m","a">>),
      JStr(<<"I","n","a","z","u","m","a">>), JStr(<<"s","u","m","e","r","u">>),
      JStr(<<"f","o","n","t","a","i","n","e">>), JStr(<<"N","a","t","l","a","n">>),
      JStr(<<"s","n","e","z","h","n","a","y","a">>),
      JStr(<<"c","o","n","s","t","r","u","c","t","o","r">>),
      JStr(<<"m","o","n">>), JStr(<<>>), JStr(<<" ">>), JUndef, JNull, JNum(0), JNum(7) }
RawDays ==
    { JStr(<<"m","o","n","d","a","y">>), JStr(<<"M","o","n">>), JStr(<<"m">>),
      JStr(<<"T","u","e">>), JStr(<<"t">>), JStr(<<" ","w","e","d"," ">>), JStr(<<"w","e","n">>),
      JStr(<<"W">>), JStr(<<"t","h","u","r","s","d","a","y">>), JStr(<<"t","h">>),
      JStr(<<"f","r","i">>), JStr(<<"s">>), JStr(<<"S","u","n","d","a","y">>),
      JStr(<<"x","y","z">>), JStr(<<"_","_","p","r","o","t","o","_","_">>),
      JStr(<<>>), JUndef, JNum(1) }

-----------------------------------------------------------------------------
(* 4) State *)

NoCall == [fn |-> "none"]
NoRet == [done |-> FALSE]

\* the document as the script finds it: the texts and styles are the markup's
InitDom ==
    [ cards |-> <<>>, empty |-> "markup", datalist |-> <<>>,
      sumMora |-> <<"markup">>, sumExp |-> <<"markup">>, sumBooks |-> <<"markup">>,
      expRow |-> TRUE, icons |-> {}, crownRows |-> <<>>, seriesWraps |-> <<>> ]

\* the script has run and DOMContentLoaded has not fired
InitIdle ==
    /\ phase = "boot"
    /\ fetchChars = "idle"
    /\ fetchBooks = "idle"
    /\ rawChars = JUndef
    /\ bookCost = JUndef
    /\ CHARACTERS = <<>>
    /\ dom = InitDom
    /\ totals = [sum |-> ZeroSum, seriesTotals |-> <<>>]
    /\ loadAlerts = 0
    /\ alerted = "none"
    /\ nChanges = 0

InitApp == InitIdle /\ list = <<>>

Init ==
    /\ InitApp
    /\ TALENT_COSTS = <<>>
    /\ call = NoCall
    /\ ret = NoRet

-----------------------------------------------------------------------------
(* 11) Init *)

\* DOMContentLoaded: init() runs up to its await, loadData up to its own
DOMContentLoaded ==
    /\ phase = "boot"
    /\ phase' = "loading"
    /\ fetchChars' = "pending"
    /\ fetchBooks' = "pending"
    /\ UNCHANGED <<rawChars, bookCost, CHARACTERS, TALENT_COSTS, list, dom, totals,
                   loadAlerts, alerted, nChanges, call, ret>>

\* what a handler that ends in render() or refreshTotals() leaves: drawn is
\* that call's result; initTotalsPanel follows it in init()
Drawn(drawn, inInit) ==
    /\ dom' = IF inInit THEN initTotalsPanel(drawn.dom) ELSE drawn.dom
    /\ totals' = drawn.totals

\* init() after its try statement, a being the tables it left: the alert of
\* the catch block, initDatalist, render and initTotalsPanel
InitRest(a) ==
    /\ phase' = IF a.threw THEN "failed" ELSE "ready"
    /\ loadAlerts' = IF a.threw THEN loadAlerts + 1 ELSE loadAlerts
    /\ CHARACTERS' = a.CHARACTERS
    /\ TALENT_COSTS' = a.TALENT_COSTS
    /\ Drawn(render(a.TALENT_COSTS, list, initDatalist(a.CHARACTERS, dom)), TRUE)

\* the rest of init() once loadData has settled with r
InitSettles(r) == InitRest(AfterLoad(r))

\* fetchJSON(CHARACTERS_URL) resolves with the parsed payload.  Promise.all
\* keeps it until the other fetch has resolved too, and then loadData's body
\* and the rest of init() run; after a rejection the payload is dropped.
FetchCharsOk(payload) ==
    /\ fetchChars = "pending"
    /\ fetchChars' = "ok"
    /\ IF phase = "loading" /\ fetchBooks = "ok"
       THEN /\ InitSettles(loadDataBody(payload, bookCost))
            /\ rawChars' = JUndef
            /\ bookCost' = JUndef
       ELSE /\ rawChars' = IF phase = "loading" THEN payload ELSE JUndef
            /\ UNCHANGED <<bookCost, phase, loadAlerts, CHARACTERS, TALENT_COSTS, dom, totals>>
    /\ UNCHANGED <<fetchBooks, list, alerted, nChanges, call, ret>>

FetchBooksOk(payload) ==
    /\ fetchBooks = "pending"
    /\ fetchBooks' = "ok"
    /\ IF phase = "loading" /\ fetchChars = "ok"
       THEN /\ InitSettles(loadDataBody(rawChars, payload))
            /\ rawChars' = JUndef
            /\ bookCost' = JUndef
       ELSE /\ bookCost' = IF phase = "loading" THEN payload ELSE JUndef
            /\ UNCHANGED <<rawChars, phase, loadAlerts, CHARACTERS, TALENT_COSTS, dom, totals>>
    /\ UNCHANGED <<fetchChars, list, alerted, nChanges, call, ret>>

\* fetchJSON rejects (network error, a status that is not ok, a body that is
\* no JSON); Promise.all rejects with the first rejection and the rest of
\* init() runs
FetchCharsFail ==
    /\ fetchChars = "pending"
    /\ fetchChars' = "fail"
    /\ IF phase = "loading"
       THEN InitSettles(Rejected)
       ELSE UNCHANGED <<phase, loadAlerts, CHARACTERS, TALENT_COSTS, dom, totals>>
    /\ rawChars' = JUndef
    /\ bookCost' = JUndef
    /\ UNCHANGED <<fetchBooks, list, alerted, nChanges, call, ret>>

FetchBooksFail ==
    /\ fetchBooks = "pending"
    /\ fetchBooks' = "fail"
    /\ IF phase = "loading"
       THEN InitSettles(Rejected)
       ELSE UNCHANGED <<phase, loadAlerts, CHARACTERS, TALENT_COSTS, dom, totals>>
    /\ rawChars' = JUndef
    /\ bookCost' = JUndef
    /\ UNCHANGED <<fetchChars, list, alerted, nChanges, call, ret>>

-----------------------------------------------------------------------------
(* 10) Events *)

\* whether the predicate of CHARACTERS.find throws on c: .toLowerCase() on a
\* truthy name that is no string
MatchThrows(c, keyword) ==
    \/ Truthy(c.name) /\ c.name.t # "str"
    \/ /\ ~(Truthy(c.name) /\ ToLowerCase(c.name.s) = ToLowerCase(keyword))
       /\ Truthy(c.name_en) /\ c.name_en.t # "str"

\* the predicate of CHARACTERS.find, where it does not throw
Matches(c, keyword) ==
    \/ Truthy(c.name) /\ ToLowerCase(c.name.s) = ToLowerCase(keyword)
    \/ Truthy(c.name_en) /\ ToLowerCase(c.name_en.s) = ToLowerCase(keyword)

\* CHARACTERS.find(...), from index i on: the index found, 0 for undefined,
\* -1 when the predicate throws
RECURSIVE Find(_, _, _)
Find(chars, keyword, i) ==
    IF i > Len(chars) THEN 0
    ELSE IF MatchThrows(chars[i], keyword) THEN -1
    ELSE IF Matches(chars[i], keyword) THEN i
    ELSE Find(chars, keyword, i + 1)

\* a mutant of AlreadyListed: no duplicate check
AlreadyListedNever(lst, found) == FALSE

\* appState.list.some(x=>x.id===found.id)
AlreadyListed(lst, found) == \E i \in 1..Len(lst) : lst[i].id = found.id

\* the object the add handler pushes (name, element and image, which no
\* computation reads, are left out)
NewEntry(found, now) ==
    [ uid |-> ToStr(found.id) \o <<"-">> \o NatToStr(now),
      id |-> found.id,
      levelCurrent |-> 1, levelTarget |-> 90,
      naCurrent |-> 1, naTarget |-> 6,
      skillCurrent |-> 1, skillTarget |-> 6,
      burstCurrent |-> 1, burstTarget |-> 6,
      talent_book |-> found.talent_book,
      region |-> found.region ]

\* the push and the render of the add handler, for the character found
Push(found, now) ==
    /\ list' = Append(list, NewEntry(found, now))
    /\ Drawn(render(TALENT_COSTS, Append(list, NewEntry(found, now)), dom), FALSE)
    /\ UNCHANGED <<phase, fetchChars, fetchBooks, rawChars, bookCost,
                   CHARACTERS, TALENT_COSTS, loadAlerts, alerted, nChanges, call, ret>>

\* an early return of the add handler after alert(message)
Alert(message) ==
    /\ alerted' = message
    /\ UNCHANGED <<phase, fetchChars, fetchBooks, rawChars, bookCost, CHARACTERS,
                   TALENT_COSTS, list, dom, totals, loadAlerts, nChanges, call, ret>>

\* the add handler from the find on, k being what find returned
AddFound(k) ==
    IF k = -1 THEN UNCHANGED vars
    ELSE IF k = 0 THEN Alert("unknown")
    ELSE IF AlreadyListed(list, CHARACTERS[k]) THEN Alert("listed")
    ELSE \E now \in Times : Push(CHARACTERS[k], now)

\* the click handler of btnAdd, with search.value = keyword; Date.now() = now
\* when it gets that far.  It returns early on an empty keyword, alerts and returns
\* on an unknown name and on a listed id, and is aborted when find throws.
Add(keyword) ==
    IF Trim(keyword) = <<>> THEN UNCHANGED vars
    ELSE AddFound(Find(CHARACTERS, Trim(keyword), 1))

\* the click handler of btnClear; ok is the answer to confirm()
Clear(ok) ==
    IF ~ok THEN UNCHANGED vars
    ELSE /\ list' = <<>>
         /\ Drawn(render(TALENT_COSTS, <<>>, dom), FALSE)
         /\ UNCHANGED <<phase, fetchChars, fetchBooks, rawChars, bookCost,
                        CHARACTERS, TALENT_COSTS, loadAlerts, alerted, nChanges, call, ret>>

\* appState.list.filter(x => x.uid !== item.uid)
Without(lst, uid) == SelectSeq(lst, LAMBDA x : x.uid # uid)

\* the click handler of the remove button of card i: the entries with the
\* uid of the card's item are filtered out
Remove(i) ==
    /\ i \in 1..Len(dom.cards)
    /\ list' = Without(list, dom.cards[i].uid)
    /\ Drawn(render(TALENT_COSTS, Without(list, dom.cards[i].uid), dom), FALSE)
    /\ UNCHANGED <<phase, fetchChars, fetchBooks, rawChars, bookCost,
                   CHARACTERS, TALENT_COSTS, loadAlerts, alerted, nChanges, call, ret>>

\* the assignments of onChange: the item gets the values of the eight selects
FromSelects(item, sel) ==
    [ item EXCEPT !.levelCurrent = sel[1], !.levelTarget = sel[2],
                  !.naCurrent = sel[3], !.naTarget = sel[4],
                  !.skillCurrent = sel[5], !.skillTarget = sel[6],
                  !.burstCurrent = sel[7], !.burstTarget = sel[8] ]

\* a mutant of AfterChange: the preview is updated and the totals are not
AfterChangePreviewOnly(costs, lst, d) == [totals |-> totals, dom |-> d]

\* the call of refreshTotals that ends onChange
AfterChange(costs, lst, d) == refreshTotals(costs, lst, d)

\* onChange for card i, whose selects now hold sel and whose item becomes item
Changed(i, sel, item) ==
    /\ list' = [list EXCEPT ![i] = item]
    /\ Drawn(AfterChange(TALENT_COSTS, [list EXCEPT ![i] = item],
                         [dom EXCEPT !.cards[i].selects = sel,
                                     !.cards[i].preview =
                                         fmt(calcCharacterCost(TALENT_COSTS, item).mora)]),
             FALSE)

\* the user picks option v in select k of card i, and its change event runs
\* onChange.  Card i was drawn from list[i] by the render that ended the last
\* handler to change the list, and is bound to that object.
OnChange(i, k, v) ==
    /\ nChanges < MaxChanges
    /\ i \in 1..Len(dom.cards)
    /\ v \in (IF k <= 2 THEN SelLevels ELSE SelRanks)
    /\ v # dom.cards[i].selects[k]
    /\ Changed(i, [dom.cards[i].selects EXCEPT ![k] = v],
               FromSelects(list[i], [dom.cards[i].selects EXCEPT ![k] = v]))
    /\ nChanges' = nChanges + 1
    /\ UNCHANGED <<phase, fetchChars, fetchBooks, rawChars, bookCost,
                   CHARACTERS, TALENT_COSTS, loadAlerts, alerted, call, ret>>

-----------------------------------------------------------------------------
(* The application *)

Next ==
    \/ DOMContentLoaded
    \/ \E payload \in Rosters : FetchCharsOk(payload)
    \/ \E payload \in BookCosts : FetchBooksOk(payload)
    \/ FetchCharsFail
    \/ FetchBooksFail
    \/ \E keyword \in Keywords : Add(keyword)
    \/ \E ok \in BOOLEAN : Clear(ok)
    \/ \E i \in 1..Len(dom.cards) : Remove(i)
    \/ \E i \in 1..Len(dom.cards), k \in 1..8, v \in SelLevels \cup SelRanks : OnChange(i, k, v)

Spec == Init /\ [][Next]_vars

-----------------------------------------------------------------------------
(* The calculators and the resolver, called on their own *)

Returned(v) == [done |-> TRUE, value |-> v]

Quiet == UNCHANGED <<appVars, TALENT_COSTS, call>>

InitLevel ==
    /\ InitApp
    /\ TALENT_COSTS = <<>>
    /\ call \in { [fn |-> "calcLevelCost", curr |-> c, target |-> t] : c \in Levels, t \in Levels }
    /\ ret = NoRet

CallLevelCost ==
    /\ call.fn = "calcLevelCost"
    /\ ~ret.done
    /\ ret' = Returned(calcLevelCost(call.curr, call.target))
    /\ Quiet

SpecLevel == InitLevel /\ [][CallLevelCost]_vars

InitTalent ==
    /\ InitApp
    /\ TALENT_COSTS \in SeqsUpTo(StepPool, MaxSteps)
    /\ call \in { [fn |-> "calcTalentCost", from |-> f, to |-> t] : f \in Ranks, t \in Ranks }
    /\ ret = NoRet

CallTalentCost ==
    /\ call.fn = "calcTalentCost"
    /\ ~ret.done
    /\ ret' = Returned(calcTalentCost(TALENT_COSTS, call.from, call.to))
    /\ Quiet

SpecTalent == InitTalent /\ [][CallTalentCost]_vars

\* an entry of the working list with its selects set
EntryOf(c, now, sel) == FromSelects(NewEntry(NormalizeChar(c), now), sel)

InitCharacter ==
    /\ InitApp
    /\ TALENT_COSTS \in CostTables
    /\ call \in { [fn |-> "calcCharacterCost", s |-> EntryOf(Amber, 0, <<lc, lt, nc, nt, sc, st, bc, bt>>)] :
                    lc \in CharLevels, lt \in CharLevels, nc \in CharRanks, nt \in CharRanks,
                    sc \in CharRanks, st \in CharRanks, bc \in CharRanks, bt \in CharRanks }
    /\ ret = NoRet

CallCharacterCost ==
    /\ call.fn = "calcCharacterCost"
    /\ ~ret.done
    /\ ret' = Returned(calcCharacterCost(TALENT_COSTS, call.s))
    /\ Quiet

SpecCharacter == InitCharacter /\ [][CallCharacterCost]_vars

InitResolver ==
    /\ InitApp
    /\ TALENT_COSTS = <<>>
    /\ call \in { [fn |-> "normalize",
                   c |-> RawChar(JNum(1), JStr(<<"A">>), JStr(<<"A">>), region, day)] :
                    region \in RawRegions, day \in RawDays }
    /\ ret = NoRet

\* the callback of rawChars.map on one record
CallNormalize ==
    /\ call.fn = "normalize"
    /\ ~ret.done
    /\ ret' = Returned(IF NormalizeThrows(call.c) THEN Thrown ELSE NormalizeChar(call.c))
    /\ Quiet

SpecResolver == InitResolver /\ [][CallNormalize]_vars

\* the entries the lists handed to refreshTotals are made of: two of one
\* character with different selects, one without a series, and one made by
\* hand with the key and name of Mondstadt's series and another region
EntryPool ==
    { EntryOf(Amber, 0, <<1, 90, 1, 6, 1, 6, 1, 6>>),
      EntryOf(Amber, 1, <<20, 40, 1, 10, 3, 6, 1, 1>>),
      EntryOf(Tartaglia, 0, <<1, 90, 1, 6, 1, 6, 1, 6>>),
      EntryOf(Keqing, 0, <<1, 40, 1, 3, 1, 10, 9, 10>>),
      [ EntryOf(Amber, 0, <<40, 90, 2, 3, 1, 2, 1, 1>>)
          EXCEPT !.id = JNum(3), !.region = JStr(<<"l","i","y","u","e">>) ] }

InitTotals ==
    /\ InitIdle
    /\ list \in SeqsUpTo(EntryPool, MaxList)
    /\ TALENT_COSTS \in { MainCosts, <<>> }
    /\ call = [fn |-> "refreshTotals"]
    /\ ret = [done |-> FALSE, calls |-> 0]

\* refreshTotals(), again and again on one list
CallRefreshTotals ==
    /\ call.fn = "refreshTotals"
    /\ ret.calls < MaxCalls
    /\ Drawn(refreshTotals(TALENT_COSTS, list, dom), FALSE)
    /\ ret' = [done |-> TRUE, calls |-> ret.calls + 1]
    /\ UNCHANGED <<phase, fetchChars, fetchBooks, rawChars, bookCost, CHARACTERS,
                   TALENT_COSTS, list, loadAlerts, alerted, nChanges, call>>

SpecTotals == InitTotals /\ [][CallRefreshTotals]_vars

-----------------------------------------------------------------------------
(* Claims *)

\* the sum of f over the set S of its arguments
RECURSIVE SumOver(_, _)
SumOver(S, f) ==
    IF S = {} THEN 0
    ELSE LET x == CHOOSE y \in S : TRUE
         IN  f[x] + SumOver(S \ {x}, f)

Anchors == {1, 20, 40, 50, 60, 70, 80, 90}

Largest(S) == CHOOSE x \in S : \A y \in S : y <= x
Smallest(S) == CHOOSE x \in S : \A y \in S : x <= y

FloorAnchor(curr) ==
    IF \E a \in Anchors : a <= curr THEN Largest({a \in Anchors : a <= curr}) ELSE 1
CeilAnchor(target) ==
    IF \E a \in Anchors : a >= target THEN Smallest({a \in Anchors : a >= target}) ELSE 90

\* the segments between the floor anchor of curr and the ceiling anchor of target
SegmentsOf(curr, target) ==
    { i \in 1..Len(LEVEL_COSTS) : /\ LEVEL_COSTS[i].to_level > FloorAnchor(curr)
                                  /\ LEVEL_COSTS[i].from_level < CeilAnchor(target) }

SegmentSum(S) ==
    [ xp |-> SumOver(S, [i \in S |-> LEVEL_COSTS[i].total_xp]),
      mora |-> SumOver(S, [i \in S |-> LEVEL_COSTS[i].total_mora]),
      hero |-> SumOver(S, [i \in S |-> LEVEL_COSTS[i].hero_wit]) ]

\* C1: calcLevelCost(curr, target) is zero when target <= curr and otherwise
\* the sum of the segments with to_level above the floor anchor of curr and
\* from_level below the ceiling anchor of target; 1->90 costs all seven
\* segments, 20->40 and 25->35 the 20->40 segment.
C1_LevelCostIsSegmentSum ==
    (call.fn = "calcLevelCost" /\ ret.done) =>
        /\ call.target <= call.curr => ret.value = [xp |-> 0, mora |-> 0, hero |-> 0]
        /\ call.target > call.curr => ret.value = SegmentSum(SegmentsOf(call.curr, call.target))
        /\ (call.curr = 1 /\ call.target = 90) =>
               ret.value = [xp |-> 8362650, mora |-> 1676000, hero |-> 419]
        /\ (call.curr = 20 /\ call.target = 40) =>
               ret.value = [xp |-> 578325, mora |-> 112000, hero |-> 28]
        /\ (call.curr = 25 /\ call.target = 35) =>
               ret.value = [xp |-> 578325, mora |-> 112000, hero |-> 28]

C1_Witness ==
    /\ call.fn = "calcLevelCost" /\ ret.done
    /\ call.curr = 25 /\ call.target = 35
    /\ ret.value.mora = 112000

IsNumber(x) == x # NaN

\* the steps of the table inside the range from..to
StepsWithin(steps, from, to) ==
    { i \in 1..Len(steps) : /\ IsNumber(steps[i].from) /\ IsNumber(steps[i].to)
                            /\ steps[i].from >= from /\ steps[i].to <= to }

\* a malformed amount counts as nothing
Amount(x) == IF IsNumber(x) THEN x ELSE 0

StepSum(steps, S) ==
    [ mora |-> SumOver(S, [i \in S |-> Amount(steps[i].mora)]),
      crown |-> SumOver(S, [i \in S |-> Amount(steps[i].crown)]),
      books |-> [ low |-> SumOver(S, [i \in S |-> Amount(steps[i].book_low)]),
                  mid |-> SumOver(S, [i \in S |-> Amount(steps[i].book_mid)]),
                  high |-> SumOver(S, [i \in S |-> Amount(steps[i].book_high)]) ] ]

\* C2: calcTalentCost(from, to) is zero when to <= from and otherwise the sum
\* of the steps with step.from >= from and step.to <= to; a step that only
\* overlaps the range adds nothing.
C2_TalentCostIsContainment ==
    (call.fn = "calcTalentCost" /\ ret.done) =>
        /\ call.to <= call.from => ret.value = ZeroTalent
        /\ call.to > call.from =>
               ret.value = StepSum(TALENT_COSTS, StepsWithin(TALENT_COSTS, call.from, call.to))

\* the request 2->5 on a table with the step 1->3 and the step 2->3
C2_Witness ==
    /\ call.fn = "calcTalentCost" /\ ret.done
    /\ call.from = 2 /\ call.to = 5
    /\ \E i \in 1..Len(TALENT_COSTS) : TALENT_COSTS[i].from = 1 /\ TALENT_COSTS[i].to = 3
    /\ \E i \in 1..Len(TALENT_COSTS) : TALENT_COSTS[i].from = 2 /\ TALENT_COSTS[i].to = 3
    /\ ret.value.mora = 17500

AllSteps(steps) == 1..Len(steps)

\* the three rank pairs of the entry s
Tracks(s) == << <<s.naCurrent, s.naTarget>>, <<s.skillCurrent, s.skillTarget>>,
                <<s.burstCurrent, s.burstTarget>> >>

\* what calcCharacterCost must return for the entry s
Additive(v, s, costs) ==
    LET lvl == calcLevelCost(s.levelCurrent, s.levelTarget)
        track == [k \in 1..3 |-> calcTalentCost(costs, Tracks(s)[k][1], Tracks(s)[k][2])]
    IN  /\ v.mora = lvl.mora + track[1].mora + track[2].mora + track[3].mora
        /\ v.xp = lvl.xp
        /\ v.heroBooks = lvl.hero
        /\ v.crown = track[1].crown + track[2].crown + track[3].crown
        /\ \A tier \in {"low", "mid", "high"} :
               v.books[tier] = track[1].books[tier] + track[2].books[tier] + track[3].books[tier]
        \* a track at 1->1 adds nothing; a track at 1->10 adds every step of
        \* a table whose steps lie in the ranks 1..10
        /\ \A k \in 1..3 :
               /\ Tracks(s)[k] = <<1, 1>> => track[k] = ZeroTalent
               /\ (Tracks(s)[k] = <<1, 10>> /\ StepsWithin(costs, 1, 10) = AllSteps(costs)) =>
                      track[k] = StepSum(costs, AllSteps(costs))

\* C3: calcCharacterCost(entry) adds the level cost and the three talent
\* costs field by field, xp and heroBooks coming from the level cost alone,
\* and the call leaves the entry and the step table as they were.
C3_CharacterCostIsAdditive ==
    [][ (call.fn = "calcCharacterCost" /\ ~ret.done /\ ret'.done) =>
            /\ Additive(ret'.value, call.s, TALENT_COSTS)
            /\ call' = call
            /\ TALENT_COSTS' = TALENT_COSTS ]_vars

C3_Witness ==
    /\ call.fn = "calcCharacterCost" /\ ret.done
    /\ call.s.naCurrent = 1 /\ call.s.naTarget = 10
    /\ call.s.skillCurrent = 1 /\ call.s.skillTarget = 10
    /\ call.s.burstCurrent = 1 /\ call.s.burstTarget = 10
    /\ call.s.levelCurrent = 1 /\ call.s.levelTarget = 90
    /\ TALENT_COSTS = MainCosts
    /\ ret.value.mora = 1676000 + 3 * 730000
    /\ ret.value.crown = 3

\* the cost of each entry of the working list
CostOf(costs, lst) == [i \in 1..Len(lst) |-> calcCharacterCost(costs, lst[i])]

\* the component-wise sum of the costs c of the entries in S
SumOfCosts(c, S) ==
    [ mora |-> SumOver(S, [i \in S |-> c[i].mora]),
      xp |-> SumOver(S, [i \in S |-> c[i].xp]),
      hero |-> SumOver(S, [i \in S |-> c[i].heroBooks]),
      books |-> [ low |-> SumOver(S, [i \in S |-> c[i].books.low]),
                  mid |-> SumOver(S, [i \in S |-> c[i].books.mid]),
                  high |-> SumOver(S, [i \in S |-> c[i].books.high]) ],
      crown |-> SumOver(S, [i \in S |-> c[i].crown]) ]

\* C4: refreshTotals leaves in sum the component-wise sum of calcCharacterCost
\* over every entry of the list, entries with one id counted once each; for
\* the empty list every sum is 0 and the series mapping is empty.
C4_GlobalSumsOverEveryEntry ==
    (call.fn = "refreshTotals" /\ ret.done) =>
        /\ totals.sum = SumOfCosts(CostOf(TALENT_COSTS, list), 1..Len(list))
        /\ list = <<>> =>
               /\ totals.sum = [mora |-> 0, xp |-> 0, hero |-> 0,
                                books |-> [low |-> 0, mid |-> 0, high |-> 0], crown |-> 0]
               /\ totals.seriesTotals = <<>>

\* two entries of one character, both counted
C4_Witness ==
    /\ call.fn = "refreshTotals" /\ ret.done
    /\ Len(list) = 2
    /\ list[1].id = list[2].id
    /\ list[1] # list[2]
    /\ TALENT_COSTS # <<>>
    /\ totals.sum.mora = calcCharacterCost(TALENT_COSTS, list[1]).mora
                           + calcCharacterCost(TALENT_COSTS, list[2]).mora
    /\ totals.sum.mora > calcCharacterCost(TALENT_COSTS, list[1]).mora

\* the entries of the list that carry a series
Booked(lst) == { i \in 1..Len(lst) : lst[i].talent_book # NoBook }

\* the series identity of an entry: key, name and region
Identity(it) ==
    << it.talent_book.key, it.talent_book.name_kr,
       IF Truthy(it.region) THEN ToStr(it.region) ELSE <<>> >>

BucketIdentity(b) == << b.key, b.nameKr, b.region >>

SharingIdentity(lst, id) == { i \in Booked(lst) : Identity(lst[i]) = id }

\* C5: the series mapping has one bucket for exactly each (key, name, region)
\* carried by an entry with a series; its three sums are the sums of the
\* entries' talent books low/mid/high; an entry without a series is in no
\* bucket and still in the global sums.
C5_SeriesBuckets ==
    (call.fn = "refreshTotals" /\ ret.done) =>
        LET series == totals.seriesTotals
            c == CostOf(TALENT_COSTS, list)
        IN  /\ { BucketIdentity(series[k]) : k \in 1..Len(series) }
                  = { Identity(list[i]) : i \in Booked(list) }
            /\ \A j, k \in 1..Len(series) :
                   BucketIdentity(series[j]) = BucketIdentity(series[k]) => j = k
            /\ \A k \in 1..Len(series) :
                   series[k].sums =
                       [ teachings |-> SumOfCosts(c, SharingIdentity(list, BucketIdentity(series[k]))).books.low,
                         guide |-> SumOfCosts(c, SharingIdentity(list, BucketIdentity(series[k]))).books.mid,
                         philosophies |-> SumOfCosts(c, SharingIdentity(list, BucketIdentity(series[k]))).books.high ]
            /\ totals.sum.books = SumOfCosts(c, 1..Len(list)).books
            /\ totals.sum.mora = SumOfCosts(c, 1..Len(list)).mora

\* one series key and name in two regions, next to it the case of an entry
\* without a series
C5_Witness ==
    /\ call.fn = "refreshTotals" /\ ret.done
    /\ TALENT_COSTS # <<>>
    /\ Len(list) = 2
    /\ Booked(list) = {1, 2}
    /\ list[1].talent_book.key = list[2].talent_book.key
    /\ list[1].talent_book.name_kr = list[2].talent_book.name_kr
    /\ list[1].region # list[2].region
    /\ Len(totals.seriesTotals) = 2
    /\ totals.seriesTotals[2].sums.teachings > 0

\* C6: a second refreshTotals on an unchanged list leaves the sums, the series
\* mapping and the displayed rows as the first left them, and every call
\* leaves one crown row and one series container.
C6_RefreshTotalsIdempotent ==
    [][ (call.fn = "refreshTotals" /\ ret'.calls = ret.calls + 1) =>
            /\ Len(dom'.crownRows) = 1
            /\ Len(dom'.seriesWraps) = 1
            /\ ret.calls >= 1 => (totals' = totals /\ dom' = dom) ]_vars

C6_Witness ==
    /\ call.fn = "refreshTotals"
    /\ ret.calls = 2
    /\ totals.seriesTotals # <<>>
    /\ Len(dom.seriesWraps) = 1
    /\ Len(dom.seriesWraps[1]) = 3 * Len(totals.seriesTotals)
    /\ dom.crownRows # <<"0">>

TableRegions ==
    { <<"m","o","n","d">>, <<"l","i","y","u","e">>, <<"i","n","a","z","u","m","a">>,
      <<"s","u","m","e","r","u">>, <<"f","o","n","t","a","i","n","e">>, <<"n","a","t","l","a","n">> }

SeriesDays == { <<"m","o","n">>, <<"t","u","e">>, <<"w","e","d">> }

HasSeriesPair(c) ==
    /\ c.region.t = "str" /\ c.region.s \in TableRegions
    /\ c.day.t = "str" /\ c.day.s \in SeriesDays

\* the raw pair of the record handed to the resolver
RawPair(region, day) == call.c.region = JStr(region) /\ call.c.day = JStr(day)

\* C7: a record gets a series exactly when its normalized region is one of the
\* six table regions and its normalized day is mon, tue or wed, and the series
\* is the table's entry for the pair; every other pair gives null, and nothing
\* is thrown.
C7_GroupingResolver ==
    (call.fn = "normalize" /\ ret.done) =>
        /\ ret.value # Thrown
        /\ (ret.value.talent_book # NoBook) <=> HasSeriesPair(ret.value)
        /\ HasSeriesPair(ret.value) =>
               /\ ret.value.talent_book.key = TALENT_BOOKS[ret.value.region.s][ret.value.day.s].key
               /\ ret.value.talent_book.name_kr = TALENT_BOOKS[ret.value.region.s][ret.value.day.s].name_kr
        /\ RawPair(<<"m","o","n","d">>, <<"m","o","n","d","a","y">>) =>
               /\ ret.value.talent_book # NoBook
               /\ ret.value.talent_book.key = <<"freedom">>
               /\ ret.value.talent_book.name_kr = <<"jayu">>
               /\ ret.value.region = JStr(<<"m","o","n","d">>)
        /\ RawPair(<<"m","o","n","d">>, <<"t","h","u","r","s","d","a","y">>) =>
               ret.value.talent_book = NoBook
        /\ RawPair(<<" ","L","I","Y","U","E"," ">>, <<" ","w","e","d"," ">>) =>
               /\ ret.value.talent_book # NoBook
               /\ ret.value.talent_book.key = <<"gold">>
        /\ RawPair(<<"s","n","e","z","h","n","a","y","a">>, <<"m","o","n","d","a","y">>) =>
               ret.value.talent_book = NoBook
        /\ (call.c.region \in {JStr(<<>>), JStr(<<" ">>), JUndef, JNull}
              \/ call.c.day \in {JStr(<<>>), JUndef}) =>
               ret.value.talent_book = NoBook

C7_Witness ==
    /\ call.fn = "normalize" /\ ret.done
    /\ RawPair(<<"m","o","n","d">>, <<"m","o","n","d","a","y">>)
    /\ ret.value.talent_book # NoBook
    /\ ret.value.talent_book.key = <<"freedom">>

NoTwoWithOneId(lst) ==
    \A i, j \in 1..Len(lst) : lst[i].id = lst[j].id => i = j

\* the character at index k of the roster (0, -1: none) has the id of an entry
Listed(k) == k >= 1 /\ \E i \in 1..Len(list) : list[i].id = CHARACTERS[k].id

\* C8: no two entries of the working list have the same character id, whatever
\* the user adds, removes, changes and clears, and an add for a character
\* whose id is in the list leaves the list as it is.
C8_NoDuplicateIds ==
    [][ /\ NoTwoWithOneId(list)
        /\ NoTwoWithOneId(list')
        /\ \A keyword \in Keywords :
               ( /\ list # <<>>
                 /\ Trim(keyword) # <<>>
                 /\ Listed(Find(CHARACTERS, Trim(keyword), 1))
                 /\ Add(keyword) ) => (list' = list /\ alerted' = "listed") ]_vars

\* an add was turned down for its id, with other entries around it
C8_Witness ==
    /\ alerted = "listed"
    /\ Len(list) = 2
    /\ NoTwoWithOneId(list)
    /\ \E i, j \in 1..Len(CHARACTERS) : i # j /\ CHARACTERS[i].id = CHARACTERS[j].id

\* C9: while the load is pending and after it has failed the roster, the step
\* table and the working list are empty; a failed load is alerted once and the
\* page shows the empty state and zero totals.
C9_InertUntilLoaded ==
    /\ phase \in {"boot", "loading", "failed"} =>
           /\ CHARACTERS = <<>>
           /\ TALENT_COSTS = <<>>
           /\ list = <<>>
    /\ phase \in {"boot", "loading"} => loadAlerts = 0
    /\ phase = "ready" => loadAlerts = 0
    /\ phase = "failed" =>
           /\ loadAlerts = 1
           /\ dom.empty = "block"
           /\ dom.cards = <<>>
           /\ dom.datalist = <<>>
           /\ dom.sumMora = <<"0">>
           /\ dom.seriesWraps = << <<>> >>

\* both fetches succeeded, normalization failed, and the user has tried to add
C9_Witness ==
    /\ phase = "failed"
    /\ fetchChars = "ok"
    /\ fetchBooks = "ok"
    /\ alerted = "unknown"
    /\ list = <<>>
    /\ loadAlerts = 1

\* the totals panel d shows the sums and, in one container, the rows of series
Shows(d, sums, series) ==
    /\ d.sumMora = fmt(sums.mora)
    /\ d.sumExp = fmt(sums.xp)
    /\ d.sumBooks = fmt(sums.hero)
    /\ d.crownRows = << fmt(sums.crown) >>
    /\ d.seriesWraps = << WrapRows(series, 1) >>

\* the totals panel shows the totals of lst under the step table costs,
\* three rows for each series identity in lst
Fresh(costs, lst, d) ==
    /\ Shows(d, SumOfCosts(CostOf(costs, lst), 1..Len(lst)),
             Accumulate([sum |-> ZeroSum, seriesTotals |-> <<>>], costs, lst, 1).seriesTotals)
    /\ Len(d.seriesWraps[1]) = 3 * Cardinality({ Identity(lst[i]) : i \in Booked(lst) })

\* the page has been drawn: init() has got to its render(), or a handler has
\* rendered before that
Rendered == phase \in {"ready", "failed"} \/ dom.empty # "markup"

\* C10: once the page has been drawn, and so after every add, remove,
\* selector change and clear, the totals shown are the totals computed from
\* scratch over the working list as it now is.
C10_TotalsNeverStale ==
    Rendered => Fresh(TALENT_COSTS, list, dom)

\* a selector change has brought a crown into the totals of a list of two
C10_Witness ==
    /\ nChanges >= 1
    /\ Len(list) = 2
    /\ \E i \in 1..2 : list[i].naTarget = 10
    /\ dom.crownRows = << <<"1">> >>
    /\ Fresh(TALENT_COSTS, list, dom)

-----------------------------------------------------------------------------
(* The load of one cost-table row, called on its own *)

\* what the members of a raw row of book_cost.json may hold: numbers, numeric
\* strings, strings that are no numerals, null, and nothing
RowEnds == { JNum(5), JStr(<<"2">>), JStr(<<"x">>), JUndef }
RowAmounts == { JNum(3), JStr(<<"1","7","5","0","0">>), JStr(<<"a","b","c">>), JNull, JUndef }

\* the rows the load is tried on, and a null element of the array
RawRows ==
    { RawStep(from, to, book_low, book_mid, JUndef, mora, JNum(1)) :
        from \in RowEnds, to \in RowEnds \ {JStr(<<"x">>)}, book_low \in RowAmounts,
        book_mid \in {JNum(0), JStr(<<" ","4"," ">>)}, mora \in RowAmounts \ {JNull} }
      \cup { JNull }

InitRow ==
    /\ InitApp
    /\ TALENT_COSTS = <<>>
    /\ call \in { [fn |-> "loadRow", r |-> r] : r \in RawRows }
    /\ ret = NoRet

\* loadData's body on an empty roster and a cost table of the one row
CallLoadRow ==
    /\ call.fn = "loadRow"
    /\ ~ret.done
    /\ ret' = Returned(loadDataBody(JArr(<<>>), JArr(<<call.r>>)))
    /\ Quiet

SpecRow == InitRow /\ [][CallLoadRow]_vars

StepFields == {"from", "to", "book_low", "book_mid", "book_high", "mora", "crown"}

\* the number a member of a raw row is meant to be stored as: a number as
\* itself, a numeric string as its number, anything else as 0
MeantNumber(v) ==
    CASE v = JNum(5) -> 5
      [] v = JNum(3) -> 3
      [] v = JNum(1) -> 1
      [] v = JStr(<<"2">>) -> 2
      [] v = JStr(<<" ","4"," ">>) -> 4
      [] v = JStr(<<"1","7","5","0","0">>) -> 17500
      [] OTHER -> 0

\* C11: loading a raw cost-table row never throws, and each of its seven
\* numeric fields is stored as its number when it is a number or a numeric
\* string and as 0 when it is missing or non-numeric.
C11_MalformedFieldsStoredAsZero ==
    (call.fn = "loadRow" /\ ret.done) =>
        /\ ~ret.value.threw
        /\ Len(ret.value.TALENT_COSTS) = 1
        /\ \A f \in StepFields : ret.value.TALENT_COSTS[1][f] = MeantNumber(call.r[f])

-----------------------------------------------------------------------------
(* The load of one roster record beside a well-formed one *)

\* what the members of a raw record of characters.json may hold
RawIds == { JNum(2), JUndef }
RawNamesKr == { JStr(<<"B">>), JStr(<<>>), JNum(7), JNull, JUndef }
RawNamesEn == { JStr(<<"B","e">>), JNum(5), JUndef }
RawElements == { JStr(<<"P","y","r","o">>), JNull }
RawWeapons == { JStr(<<"B","o","w">>), JNum(0) }
RawImages == { JStr(<<"b",".","p","n","g">>), JUndef }
RawRecordRegions == { JStr(<<"l","i","y","u","e">>), JNum(7), JUndef }
RawRecordDays == { JStr(<<"t","u","e">>), JNull }

\* the records the load is tried on, and a null element of the array
RawRecords ==
    { WithMembers(RawChar(id, name_kr, name_en, region, day), element, weapon, image) :
        id \in RawIds, name_kr \in RawNamesKr, name_en \in RawNamesEn,
        region \in RawRecordRegions, day \in RawRecordDays,
        element \in RawElements, weapon \in RawWeapons, image \in RawImages }
      \cup { JNull }

InitRecord ==
    /\ InitApp
    /\ TALENT_COSTS = <<>>
    /\ call \in { [fn |-> "loadRecord", c |-> c] : c \in RawRecords }
    /\ ret = NoRet

\* loadData's body on a roster of Amber and the record, and an empty cost table
CallLoadRecord ==
    /\ call.fn = "loadRecord"
    /\ ~ret.done
    /\ ret' = Returned(loadDataBody(JArr(<<Amber, call.c>>), JArr(<<>>)))
    /\ Quiet

SpecRecord == InitRecord /\ [][CallLoadRecord]_vars

\* a member that is missing or malformed: absent, null, empty or no string
Malformed(v) == v.t # "str" \/ v.s = <<>>

\* an affected field degraded to the empty string or null
Degraded(v) == v = JStr(<<>>) \/ v = JNull

\* C12: loading a roster never throws whatever members of a record are missing
\* or malformed: the record next to the malformed one is loaded, a Character is
\* produced for the malformed one, and each of its text fields whose member was
\* missing or malformed is the empty string or null.
C12_RosterLoadNeverThrows ==
    (call.fn = "loadRecord" /\ ret.done) =>
        /\ ~ret.value.threw
        /\ Len(ret.value.CHARACTERS) = 2
        /\ ret.value.CHARACTERS[1] = NormalizeChar(Amber)
        /\ \A f \in {"name_en", "element", "weapon", "region", "day"} :
               Malformed(call.c[f]) => Degraded(ret.value.CHARACTERS[2][f])

-----------------------------------------------------------------------------
(* The life of a working-list entry *)

\* the values an entry starts with
Starts(e) ==
    /\ e.levelCurrent = 1 /\ e.levelTarget = 90
    /\ e.naCurrent = 1 /\ e.naTarget = 6
    /\ e.skillCurrent = 1 /\ e.skillTarget = 6
    /\ e.burstCurrent = 1 /\ e.burstTarget = 6

\* levels among the anchors and ranks in 1..10
InRange(e) ==
    /\ {e.levelCurrent, e.levelTarget} \subseteq {1, 20, 40, 50, 60, 70, 80, 90}
    /\ {e.naCurrent, e.naTarget, e.skillCurrent, e.skillTarget,
        e.burstCurrent, e.burstTarget} \subseteq 1..10

\* lst without its i-th entry
AllBut(lst, i) == SubSeq(lst, 1, i - 1) \o SubSeq(lst, i + 1, Len(lst))

\* every entry of list is still in its place in list'
AllStay ==
    /\ Len(list') >= Len(list)
    /\ \A i \in 1..Len(list) : list'[i].uid = list[i].uid /\ list'[i].id = list[i].id

\* the entry an add appends starts with the default values
AddedStartsDefault == Len(list') = Len(list) + 1 => Starts(list'[Len(list')])

\* the remove action of card i takes the entry of card i out, and no other
RemoveTakesOwn == \A i \in 1..Len(dom.cards) : Remove(i) => list' = AllBut(list, i)

\* no entry leaves in a step that is no remove and no clear
OthersKeepAll == (~Clear(TRUE) /\ ~\E i \in 1..Len(dom.cards) : Remove(i)) => AllStay

\* C13: an added entry starts with levelCurrent 1, levelTarget 90 and the three
\* talent tracks 1->6; after every add, selector change, remove and clear every
\* entry has its levels among the anchors and its six ranks in 1..10; and an
\* entry leaves the list only by its own remove action or by clear.
C13_EntryLifecycle ==
    [][ /\ AddedStartsDefault
        /\ \A i \in 1..Len(list') : InRange(list'[i])
        /\ RemoveTakesOwn
        /\ OthersKeepAll ]_vars

====
